---- MODULE Spec2Model ----
(***************************************************************************)
(* The keyboard core of types/wlr_keyboard.c as a state machine.           *)
(*                                                                         *)
(* One action per public operation; each action is the whole handler.      *)
(* Bit masks (xkb_mod_mask_t, the LED mask, the result of get_modifiers)   *)
(* are sets of bit positions: bit i is set in the mask iff i is in the set.*)
(* The keymap library (libxkbcommon) is modelled by what its calls do to   *)
(* a translation state: components, key filters with their reference       *)
(* counts, and the indicator query with its three answers (-1, 0, 1).      *)
(***************************************************************************)
EXTENDS Integers, Sequences, FiniteSets, TLC

\* ------------------------------------------------------------ bounds
\* Raw keycodes are 0 .. NumKeycodes-1.
NumKeycodes == 3
\* Capacity of the KeySet (32 in the program's header, scaled down so that
\* the cap is reached by the keycodes above).
WLR_KEYBOARD_KEYS_CAP == 2
\* Highest reference count a key filter of the translation state may reach.
MaxRefcnt == 2
\* The modifier index tables tried on get_modifiers give the eight
\* modifiers the indexes i + o, o in 0 .. MaxModShift.
MaxModShift == 1

\* ------------------------------------------------- program constants
WLR_LED_COUNT == 3
WLR_MODIFIER_COUNT == 8
\* the all-ones word 0xffffffff, written as the integer below every index
XKB_MOD_INVALID == 0 - 1
XKB_LED_INVALID == 0 - 1
\* keycode offset of the keymap library (evdev -> xkb)
XkbOffset == 8

NULL == "NULL"

Keycodes == 0 .. (NumKeycodes - 1)
\* the keycodes of the runs in which no press is dropped
MainKeycodes == 0 .. (WLR_KEYBOARD_KEYS_CAP - 1)
WLR_KEY_RELEASED == "released"
WLR_KEY_PRESSED == "pressed"
KeyStates == {WLR_KEY_RELEASED, WLR_KEY_PRESSED}

\* -------------------------------------------------------- the keymaps
\* Two compiled keymaps, as the library presents them.
\*   A: one layout; key 0 sets Shift, key 1 locks Lock (Caps), key 2 nothing;
\*      all eight modifiers; indicators Caps Lock 0, Num Lock 1, Scroll Lock 2.
\*   B: two layouts; key 0 nothing, key 1 sets Shift, key 2 locks Lock;
\*      modifiers 0..6 only (no Mod5); indicators Num Lock 0, Caps Lock 1,
\*      no Scroll Lock.
Keymaps == {"A", "B"}

NumMods(km) == IF km = "A" THEN 8 ELSE 7
NumGroups(km) == IF km = "A" THEN 1 ELSE 2

\* the names the core looks up, in its fixed order
mod_names == <<"Shift", "Lock", "Control", "Mod1", "Mod2", "Mod3", "Mod4", "Mod5">>
led_names == <<"Num Lock", "Caps Lock", "Scroll Lock">>

ModPosition(name) == CHOOSE i \in 0 .. 7 : mod_names[i + 1] = name

\* the library keeps the eight real modifiers in this order
Shift == ModPosition("Shift")
Lock == ModPosition("Lock")
Mod2 == ModPosition("Mod2")

NoAction == [type |-> "none", mods |-> {}]

KeyAction(km, xkbkey) ==
    CASE km = "A" /\ xkbkey = XkbOffset + 0 -> [type |-> "set", mods |-> {Shift}]
      [] km = "A" /\ xkbkey = XkbOffset + 1 -> [type |-> "lock", mods |-> {Lock}]
      [] km = "B" /\ xkbkey = XkbOffset + 1 -> [type |-> "set", mods |-> {Shift}]
      [] km = "B" /\ xkbkey = XkbOffset + 2 -> [type |-> "lock", mods |-> {Lock}]
      [] OTHER -> NoAction

xkb_map_mod_get_index(km, name) ==
    IF ModPosition(name) < NumMods(km) THEN ModPosition(name) ELSE XKB_MOD_INVALID

xkb_map_led_get_index(km, name) ==
    CASE km = "A" /\ name = "Caps Lock" -> 0
      [] km = "A" /\ name = "Num Lock" -> 1
      [] km = "A" /\ name = "Scroll Lock" -> 2
      [] km = "B" /\ name = "Num Lock" -> 0
      [] km = "B" /\ name = "Caps Lock" -> 1
      [] OTHER -> XKB_LED_INVALID

NumLeds(km) == IF km = "A" THEN 3 ELSE 2

\* The locked modifiers an indicator shows (Scroll Lock is bound to a
\* virtual modifier that maps to no real one).
LedMods(km, idx) ==
    IF idx = xkb_map_led_get_index(km, "Caps Lock") THEN {Lock}
    ELSE IF idx = xkb_map_led_get_index(km, "Num Lock") THEN {Mod2}
    ELSE {}

\* ----------------------------------------------- the translation state
NoFilter == [refcnt |-> 0, priv |-> {}]

NullState == [km |-> NULL, base |-> {}, latched |-> {}, locked |-> {},
              group |-> 0, filters |-> [k \in Keycodes |-> NoFilter]]

xkb_state_new(km) == [NullState EXCEPT !.km = km]

\* number of live filters (keys down) that hold modifier m depressed
mod_key_count(st, m) ==
    Cardinality({k \in Keycodes : st.filters[k].refcnt > 0 /\
                                  m \in KeyAction(st.km, k + XkbOffset).mods})

XKB_KEY_UP == "up"
XKB_KEY_DOWN == "down"

\* xkb_state_update_key for a key of the range the core feeds (raw + 8)
xkb_state_update_key(st, xkbkey, direction) ==
    LET k == xkbkey - XkbOffset
        act == KeyAction(st.km, xkbkey)
        f == st.filters[k]
    IN IF act.type = "none" THEN st
       ELSE IF f.refcnt > 0 THEN
           \* a filter of this key is live: it consumes the event
           IF direction = XKB_KEY_DOWN
           THEN [st EXCEPT !.filters[k].refcnt = f.refcnt + 1]
           ELSE IF f.refcnt - 1 > 0
           THEN [st EXCEPT !.filters[k].refcnt = f.refcnt - 1]
           ELSE LET gone == [st EXCEPT !.filters[k] = NoFilter]
                    cleared == {m \in act.mods : mod_key_count(gone, m) = 0}
                IN [gone EXCEPT !.base = st.base \ cleared,
                                !.locked = IF act.type = "lock"
                                           THEN st.locked \ f.priv
                                           ELSE st.locked]
       ELSE IF direction = XKB_KEY_DOWN
           THEN [st EXCEPT !.filters[k] = [refcnt |-> 1,
                                           priv |-> IF act.type = "lock"
                                                    THEN st.locked \cap act.mods
                                                    ELSE {}],
                           !.base = st.base \cup act.mods,
                           !.locked = IF act.type = "lock"
                                      THEN st.locked \cup act.mods
                                      ELSE st.locked]
           ELSE st

\* xkb_state_update_mask(state, depressed, latched, locked, 0, 0, group):
\* modifiers the keymap does not have are dropped, the layout is wrapped
\* into the keymap's range; key filters are left alone.
xkb_state_update_mask(st, depressed, latched, locked, group) ==
    LET valid == 0 .. (NumMods(st.km) - 1)
    IN [st EXCEPT !.base = depressed \cap valid,
                  !.latched = latched \cap valid,
                  !.locked = locked \cap valid,
                  !.group = group % NumGroups(st.km)]

xkb_state_serialize_mods(st, component) ==
    CASE component = "depressed" -> st.base
      [] component = "latched" -> st.latched
      [] component = "locked" -> st.locked

xkb_state_serialize_layout(st) == st.group

\* -1 for an index the keymap does not have, else 1 (active) or 0
xkb_state_led_index_is_active(st, idx) ==
    IF idx = XKB_LED_INVALID \/ idx >= NumLeds(st.km) THEN -1
    ELSE IF LedMods(st.km, idx) \cap st.locked # {} THEN 1 ELSE 0

\* ------------------------------------------------------------- KeySet
Range(s) == {s[i] : i \in 1 .. Len(s)}

set_add(values, cap, target) ==
    IF target \in Range(values) \/ Len(values) >= cap
    THEN values
    ELSE Append(values, target)

\* the last element takes the place of the removed one
set_remove(values, target) ==
    IF target \notin Range(values) THEN values
    ELSE LET i == CHOOSE j \in 1 .. Len(values) : values[j] = target
             n == Len(values)
         IN [j \in 1 .. (n - 1) |-> IF j = i THEN values[n] ELSE values[j]]

\* ------------------------------------------------------------ state
VARIABLES
    keycodes,       \* kb->keycodes[0 .. num_keycodes-1], as a sequence
    keymap,         \* kb->keymap: NULL or a keymap
    xkb_state,      \* kb->xkb_state: NullState or a translation state
    led_indexes,    \* kb->led_indexes[0..2]
    mod_indexes,    \* kb->mod_indexes[0..7]
    keymap_string,  \* kb->keymap_string
    keymap_size,    \* kb->keymap_size
    modifiers,      \* kb->modifiers
    repeat_info,    \* kb->repeat_info
    impl,           \* which hooks the backend supplies
    refcnt,         \* reference count of each keymap object
    leds,           \* the mask the backend's led_update hook received last
    destroyed,      \* wlr_keyboard_destroy has run
    log,            \* signals emitted and collaborator calls made by the
                    \* operation that ran last, in order
    lastOp,         \* history: the operation that ran last
    pressed,        \* history: keycodes whose latest key event was a press
    overflow        \* history: a press of a new keycode found the KeySet full

vars == <<keycodes, keymap, xkb_state, led_indexes, mod_indexes, keymap_string,
          keymap_size, modifiers, repeat_info, impl, refcnt, leds, destroyed,
          log, lastOp, pressed, overflow>>

kbFields == <<keycodes, keymap, xkb_state, led_indexes, mod_indexes,
              keymap_string, keymap_size, modifiers, repeat_info>>

NullString == [null |-> TRUE, bytes |-> <<>>]

\* canonical text of a keymap
xkb_keymap_get_as_string(km) ==
    [null |-> FALSE, bytes |-> <<"xkb_keymap", "{", km, "}">>]

ZeroModifiers == [depressed |-> {}, latched |-> {}, locked |-> {}, group |-> 0]

\* The backends: one that supplies both optional hooks, one that supplies
\* none (the two hooks are tested in separate places, each on its own).
Backends == {[led_update |-> TRUE, destroy |-> TRUE],
             [led_update |-> FALSE, destroy |-> FALSE]}

\* the struct is zero-allocated by the backend, then wlr_keyboard_init runs
wlr_keyboard_init ==
    /\ keycodes = <<>>
    /\ keymap = NULL
    /\ xkb_state = NullState
    /\ led_indexes = [i \in 0 .. (WLR_LED_COUNT - 1) |-> 0]
    /\ mod_indexes = [i \in 0 .. (WLR_MODIFIER_COUNT - 1) |-> 0]
    /\ keymap_string = NullString
    /\ keymap_size = 0
    /\ modifiers = ZeroModifiers
    /\ repeat_info = [rate |-> 25, delay |-> 600]
    /\ impl \in Backends

Init ==
    /\ wlr_keyboard_init
    /\ refcnt = [km \in Keymaps |-> 1]
    /\ leds = {}
    /\ destroyed = FALSE
    /\ log = <<>>
    /\ lastOp = [name |-> "init"]
    /\ pressed = {}
    /\ overflow = FALSE

\* ------------------------------------------------- signals and calls
\* the key signal: the event, and the KeySet a subscriber finds in its callback
KeySignal(event, kc) == [sig |-> "key", event |-> event, keycodes |-> kc]
ModifiersSignal(mods) == [sig |-> "modifiers", modifiers |-> mods]
KeymapSignal(km, st, mods) ==
    [sig |-> "keymap", keymap |-> km, xkb_state |-> st, modifiers |-> mods]
RepeatInfoSignal(ri) == [sig |-> "repeat_info", repeat_info |-> ri]
LedUpdateCall(mask) == [sig |-> "led_update", leds |-> mask]

Emitted(l, name) == {i \in 1 .. Len(l) : l[i].sig = name}

\* ------------------------------------------------------------ helpers
\* mutant: a mask with no indicator lit is not forwarded
keyboard_led_update_lit(st, lidx) ==
    LET mask == {i \in 0 .. (WLR_LED_COUNT - 1) :
                    xkb_state_led_index_is_active(st, lidx[i]) # 0}
    IN IF st.km = NULL \/ mask = {} THEN <<>> ELSE <<LedUpdateCall(mask)>>

\* the calls keyboard_led_update makes to wlr_keyboard_led_update
keyboard_led_update(st, lidx) ==
    IF st.km = NULL THEN <<>>
    ELSE <<LedUpdateCall({i \in 0 .. (WLR_LED_COUNT - 1) :
                xkb_state_led_index_is_active(st, lidx[i]) # 0})>>

\* what the backend holds after the calls `calls`
wlr_keyboard_led_update(hooks, old, calls) ==
    IF hooks.led_update /\ calls # <<>> THEN calls[Len(calls)].leds ELSE old

\* mutant: only the depressed mask is compared
keyboard_modifier_update_depressed(st, mods) ==
    IF st.km = NULL THEN [updated |-> FALSE, modifiers |-> mods]
    ELSE LET ser == [depressed |-> xkb_state_serialize_mods(st, "depressed"),
                     latched |-> xkb_state_serialize_mods(st, "latched"),
                     locked |-> xkb_state_serialize_mods(st, "locked"),
                     group |-> xkb_state_serialize_layout(st)]
         IN IF ser.depressed = mods.depressed
            THEN [updated |-> FALSE, modifiers |-> mods]
            ELSE [updated |-> TRUE, modifiers |-> ser]

\* mutant: the layout is compared but not stored
keyboard_modifier_update_nogroup(st, mods) ==
    IF st.km = NULL THEN [updated |-> FALSE, modifiers |-> mods]
    ELSE LET ser == [depressed |-> xkb_state_serialize_mods(st, "depressed"),
                     latched |-> xkb_state_serialize_mods(st, "latched"),
                     locked |-> xkb_state_serialize_mods(st, "locked"),
                     group |-> xkb_state_serialize_layout(st)]
         IN IF ser = mods
            THEN [updated |-> FALSE, modifiers |-> mods]
            ELSE [updated |-> TRUE,
                  modifiers |-> [ser EXCEPT !.group = mods.group]]

keyboard_modifier_update(st, mods) ==
    IF st.km = NULL THEN [updated |-> FALSE, modifiers |-> mods]
    ELSE LET ser == [depressed |-> xkb_state_serialize_mods(st, "depressed"),
                     latched |-> xkb_state_serialize_mods(st, "latched"),
                     locked |-> xkb_state_serialize_mods(st, "locked"),
                     group |-> xkb_state_serialize_layout(st)]
         IN IF ser = mods
            THEN [updated |-> FALSE, modifiers |-> mods]
            ELSE [updated |-> TRUE, modifiers |-> ser]

\* mutant: the capacity handed to set_add is one too large
keyboard_key_update_cap(kc, event) ==
    IF event.state = WLR_KEY_PRESSED
    THEN set_add(kc, WLR_KEYBOARD_KEYS_CAP + 1, event.keycode)
    ELSE set_remove(kc, event.keycode)

\* mutant: a release is not taken out of the set
keyboard_key_update_norelease(kc, event) ==
    IF event.state = WLR_KEY_PRESSED
    THEN set_add(kc, WLR_KEYBOARD_KEYS_CAP, event.keycode)
    ELSE kc

\* mutant: a press toggles the keycode
keyboard_key_update_toggle(kc, event) ==
    IF event.state = WLR_KEY_PRESSED /\ event.keycode \notin Range(kc)
    THEN set_add(kc, WLR_KEYBOARD_KEYS_CAP, event.keycode)
    ELSE set_remove(kc, event.keycode)

keyboard_key_update(kc, event) ==
    IF event.state = WLR_KEY_PRESSED
    THEN set_add(kc, WLR_KEYBOARD_KEYS_CAP, event.keycode)
    ELSE set_remove(kc, event.keycode)

\* mutant: the depressed mask is left out of the union
wlr_keyboard_get_modifiers_latched(mods, midx) ==
    {i \in 0 .. (WLR_MODIFIER_COUNT - 1) :
        midx[i] # XKB_MOD_INVALID /\ midx[i] \in mods.latched}

\* mutant: the locked mask is part of the union
wlr_keyboard_get_modifiers_locked(mods, midx) ==
    LET mask == mods.depressed \cup mods.latched \cup mods.locked
    IN {i \in 0 .. (WLR_MODIFIER_COUNT - 1) :
            midx[i] # XKB_MOD_INVALID /\ midx[i] \in mask}

wlr_keyboard_get_modifiers(mods, midx) ==
    LET mask == mods.depressed \cup mods.latched
    IN {i \in 0 .. (WLR_MODIFIER_COUNT - 1) :
            midx[i] # XKB_MOD_INVALID /\ midx[i] \in mask}

\* ---------------------------------------------------------- operations
\* history variables of a key event
KeyHistory(event) ==
    /\ pressed' = IF event.state = WLR_KEY_PRESSED
                  THEN pressed \cup {event.keycode}
                  ELSE pressed \ {event.keycode}
    /\ overflow' = (overflow \/ (/\ event.state = WLR_KEY_PRESSED
                                 /\ event.keycode \notin Range(keycodes)
                                 /\ Len(keycodes) >= WLR_KEYBOARD_KEYS_CAP))

\* mutant: the key signal is emitted at the end of the handler
wlr_keyboard_notify_key_late(event) ==
    /\ ~destroyed
    /\ keycodes' = keyboard_key_update(keycodes, event)
    /\ KeyHistory(event)
    /\ lastOp' = [name |-> "notify_key", loaded |-> xkb_state.km # NULL,
                  held |-> event.keycode \in Range(keycodes),
                  leds_before |-> leds]
    /\ IF xkb_state.km = NULL
       THEN /\ log' = <<KeySignal(event, keycodes')>>
            /\ UNCHANGED <<xkb_state, modifiers, leds>>
       ELSE LET st == IF event.update_state
                      THEN xkb_state_update_key(xkb_state,
                               event.keycode + XkbOffset,
                               IF event.state = WLR_KEY_PRESSED
                               THEN XKB_KEY_DOWN ELSE XKB_KEY_UP)
                      ELSE xkb_state
                mu == keyboard_modifier_update(st, modifiers)
                calls == keyboard_led_update(st, led_indexes)
            IN /\ xkb_state' = st
               /\ modifiers' = mu.modifiers
               /\ log' = (IF mu.updated
                          THEN <<ModifiersSignal(mu.modifiers)>> ELSE <<>>)
                         \o calls \o <<KeySignal(event, keycodes')>>
               /\ leds' = wlr_keyboard_led_update(impl, leds, calls)
    /\ UNCHANGED <<keymap, led_indexes, mod_indexes, keymap_string, keymap_size,
                   repeat_info, impl, refcnt, destroyed>>

\* mutant: the translation state is advanced whatever update_state says
wlr_keyboard_notify_key_always(event) ==
    /\ ~destroyed
    /\ keycodes' = keyboard_key_update(keycodes, event)
    /\ KeyHistory(event)
    /\ lastOp' = [name |-> "notify_key", loaded |-> xkb_state.km # NULL,
                  held |-> event.keycode \in Range(keycodes),
                  leds_before |-> leds]
    /\ IF xkb_state.km = NULL
       THEN /\ log' = <<KeySignal(event, keycodes')>>
            /\ UNCHANGED <<xkb_state, modifiers, leds>>
       ELSE LET st == xkb_state_update_key(xkb_state,
                          event.keycode + XkbOffset,
                          IF event.state = WLR_KEY_PRESSED
                          THEN XKB_KEY_DOWN ELSE XKB_KEY_UP)
                mu == keyboard_modifier_update(st, modifiers)
                calls == keyboard_led_update(st, led_indexes)
            IN /\ xkb_state' = st
               /\ modifiers' = mu.modifiers
               /\ log' = <<KeySignal(event, keycodes')>>
                         \o (IF mu.updated
                             THEN <<ModifiersSignal(mu.modifiers)>> ELSE <<>>)
                         \o calls
               /\ leds' = wlr_keyboard_led_update(impl, leds, calls)
    /\ UNCHANGED <<keymap, led_indexes, mod_indexes, keymap_string, keymap_size,
                   repeat_info, impl, refcnt, destroyed>>

wlr_keyboard_notify_key(event) ==
    /\ ~destroyed
    /\ keycodes' = keyboard_key_update(keycodes, event)
    /\ KeyHistory(event)
    /\ lastOp' = [name |-> "notify_key", loaded |-> xkb_state.km # NULL,
                  held |-> event.keycode \in Range(keycodes),
                  leds_before |-> leds]
    /\ IF xkb_state.km = NULL
       THEN /\ log' = <<KeySignal(event, keycodes')>>
            /\ UNCHANGED <<xkb_state, modifiers, leds>>
       ELSE LET st == IF event.update_state
                      THEN xkb_state_update_key(xkb_state,
                               event.keycode + XkbOffset,
                               IF event.state = WLR_KEY_PRESSED
                               THEN XKB_KEY_DOWN ELSE XKB_KEY_UP)
                      ELSE xkb_state
                mu == keyboard_modifier_update(st, modifiers)
                calls == keyboard_led_update(st, led_indexes)
            IN /\ xkb_state' = st
               /\ modifiers' = mu.modifiers
               /\ log' = <<KeySignal(event, keycodes')>>
                         \o (IF mu.updated
                             THEN <<ModifiersSignal(mu.modifiers)>> ELSE <<>>)
                         \o calls
               /\ leds' = wlr_keyboard_led_update(impl, leds, calls)
    /\ UNCHANGED <<keymap, led_indexes, mod_indexes, keymap_string, keymap_size,
                   repeat_info, impl, refcnt, destroyed>>

wlr_keyboard_notify_modifiers(mods_depressed, mods_latched, mods_locked, group) ==
    /\ ~destroyed
    /\ lastOp' = [name |-> "notify_modifiers",
                  args |-> <<mods_depressed, mods_latched, mods_locked, group>>,
                  loaded |-> xkb_state.km # NULL, leds_before |-> leds]
    /\ IF xkb_state.km = NULL
       THEN /\ log' = <<>>
            /\ UNCHANGED <<xkb_state, modifiers, leds>>
       ELSE LET st == xkb_state_update_mask(xkb_state, mods_depressed,
                          mods_latched, mods_locked, group)
                mu == keyboard_modifier_update(st, modifiers)
                calls == keyboard_led_update(st, led_indexes)
            IN /\ xkb_state' = st
               /\ modifiers' = mu.modifiers
               /\ log' = (IF mu.updated
                          THEN <<ModifiersSignal(mu.modifiers)>> ELSE <<>>)
                         \o calls
               /\ leds' = wlr_keyboard_led_update(impl, leds, calls)
    /\ UNCHANGED <<keycodes, keymap, led_indexes, mod_indexes, keymap_string,
                   keymap_size, repeat_info, impl, refcnt, destroyed, pressed,
                   overflow>>

xkb_keymap_ref(rc, km) == IF km = NULL THEN rc ELSE [rc EXCEPT ![km] = @ + 1]
xkb_keymap_unref(rc, km) == IF km = NULL THEN rc ELSE [rc EXCEPT ![km] = @ - 1]
\* a translation state holds a reference on its keymap
xkb_state_unref(rc, st) == xkb_keymap_unref(rc, st.km)

\* mutant: the loop stops one keycode short
RECURSIVE replay_keycodes_short(_, _, _)
replay_keycodes_short(st, kc, i) ==
    IF i > Len(kc) - 1 THEN st
    ELSE replay_keycodes_short(
             xkb_state_update_key(st, kc[i] + XkbOffset, XKB_KEY_DOWN), kc, i + 1)

\* the loop that feeds the held keycodes into the new translation state
RECURSIVE replay_keycodes(_, _, _)
replay_keycodes(st, kc, i) ==
    IF i > Len(kc) THEN st
    ELSE replay_keycodes(
             xkb_state_update_key(st, kc[i] + XkbOffset, XKB_KEY_DOWN), kc, i + 1)

\* mutant: the keymap signal is gated on the recomputation
wlr_keyboard_set_keymap_gated(km, fail) ==
    /\ ~destroyed
    /\ lastOp' = [name |-> "set_keymap", keymap |-> km, ok |-> fail = "none",
                  updated |-> fail = "none" /\
                      keyboard_modifier_update(
                          replay_keycodes(xkb_state_new(km), keycodes, 1),
                          modifiers).updated]
    /\ LET rc1 == xkb_keymap_ref(xkb_keymap_unref(refcnt, keymap), km)
           rc2 == xkb_state_unref(rc1, xkb_state)
           lidx == [i \in 0 .. (WLR_LED_COUNT - 1) |->
                       xkb_map_led_get_index(km, led_names[i + 1])]
           midx == [i \in 0 .. (WLR_MODIFIER_COUNT - 1) |->
                       xkb_map_mod_get_index(km, mod_names[i + 1])]
       IN IF fail = "state"
          THEN \* err: the state is NULL already
               /\ xkb_state' = NullState
               /\ refcnt' = xkb_keymap_unref(rc2, km)
               /\ keymap' = NULL
               /\ keymap_string' = NullString
               /\ log' = <<>>
               /\ UNCHANGED <<led_indexes, mod_indexes, keymap_size, modifiers>>
          ELSE IF fail = "string"
          THEN \* err: the new state is released again
               /\ xkb_state' = NullState
               /\ refcnt' = xkb_keymap_unref(
                                xkb_state_unref(xkb_keymap_ref(rc2, km),
                                                xkb_state_new(km)), km)
               /\ led_indexes' = lidx
               /\ mod_indexes' = midx
               /\ keymap' = NULL
               /\ keymap_string' = NullString
               /\ log' = <<>>
               /\ UNCHANGED <<keymap_size, modifiers>>
          ELSE LET st == replay_keycodes(xkb_state_new(km), keycodes, 1)
                   mu == keyboard_modifier_update(st, modifiers)
               IN /\ keymap' = km
                  /\ refcnt' = xkb_keymap_ref(rc2, km)
                  /\ xkb_state' = st
                  /\ led_indexes' = lidx
                  /\ mod_indexes' = midx
                  /\ keymap_string' = xkb_keymap_get_as_string(km)
                  /\ keymap_size' = Len(xkb_keymap_get_as_string(km).bytes) + 1
                  /\ modifiers' = mu.modifiers
                  /\ log' = IF mu.updated
                            THEN <<KeymapSignal(km, st, mu.modifiers)>>
                            ELSE <<>>
    /\ UNCHANGED <<keycodes, repeat_info, impl, leds, destroyed, pressed,
                   overflow>>

\* mutant: the err path keeps the reference taken on the new keymap
wlr_keyboard_set_keymap_leak(km, fail) ==
    /\ ~destroyed
    /\ lastOp' = [name |-> "set_keymap", keymap |-> km, ok |-> fail = "none",
                  updated |-> fail = "none" /\
                      keyboard_modifier_update(
                          replay_keycodes(xkb_state_new(km), keycodes, 1),
                          modifiers).updated]
    /\ LET rc1 == xkb_keymap_ref(xkb_keymap_unref(refcnt, keymap), km)
           rc2 == xkb_state_unref(rc1, xkb_state)
           lidx == [i \in 0 .. (WLR_LED_COUNT - 1) |->
                       xkb_map_led_get_index(km, led_names[i + 1])]
           midx == [i \in 0 .. (WLR_MODIFIER_COUNT - 1) |->
                       xkb_map_mod_get_index(km, mod_names[i + 1])]
       IN IF fail = "state"
          THEN /\ xkb_state' = NullState
               /\ refcnt' = rc2
               /\ keymap' = NULL
               /\ keymap_string' = NullString
               /\ log' = <<>>
               /\ UNCHANGED <<led_indexes, mod_indexes, keymap_size, modifiers>>
          ELSE IF fail = "string"
          THEN /\ xkb_state' = NullState
               /\ refcnt' = xkb_state_unref(xkb_keymap_ref(rc2, km),
                                            xkb_state_new(km))
               /\ led_indexes' = lidx
               /\ mod_indexes' = midx
               /\ keymap' = NULL
               /\ keymap_string' = NullString
               /\ log' = <<>>
               /\ UNCHANGED <<keymap_size, modifiers>>
          ELSE LET st == replay_keycodes(xkb_state_new(km), keycodes, 1)
                   mu == keyboard_modifier_update(st, modifiers)
               IN /\ keymap' = km
                  /\ refcnt' = xkb_keymap_ref(rc2, km)
                  /\ xkb_state' = st
                  /\ led_indexes' = lidx
                  /\ mod_indexes' = midx
                  /\ keymap_string' = xkb_keymap_get_as_string(km)
                  /\ keymap_size' = Len(xkb_keymap_get_as_string(km).bytes) + 1
                  /\ modifiers' = mu.modifiers
                  /\ log' = <<KeymapSignal(km, st, mu.modifiers)>>
    /\ UNCHANGED <<keycodes, repeat_info, impl, leds, destroyed, pressed,
                   overflow>>

\* `fail` is what the keymap library answers: "none" (both calls succeed),
\* "state" (xkb_state_new returns NULL), "string" (xkb_keymap_get_as_string
\* returns NULL)
wlr_keyboard_set_keymap(km, fail) ==
    /\ ~destroyed
    /\ lastOp' = [name |-> "set_keymap", keymap |-> km, ok |-> fail = "none",
                  updated |-> fail = "none" /\
                      keyboard_modifier_update(
                          replay_keycodes(xkb_state_new(km), keycodes, 1),
                          modifiers).updated]
    /\ LET rc1 == xkb_keymap_ref(xkb_keymap_unref(refcnt, keymap), km)
           rc2 == xkb_state_unref(rc1, xkb_state)
           lidx == [i \in 0 .. (WLR_LED_COUNT - 1) |->
                       xkb_map_led_get_index(km, led_names[i + 1])]
           midx == [i \in 0 .. (WLR_MODIFIER_COUNT - 1) |->
                       xkb_map_mod_get_index(km, mod_names[i + 1])]
       IN IF fail = "state"
          THEN \* err: the state is NULL already
               /\ xkb_state' = NullState
               /\ refcnt' = xkb_keymap_unref(rc2, km)
               /\ keymap' = NULL
               /\ keymap_string' = NullString
               /\ log' = <<>>
               /\ UNCHANGED <<led_indexes, mod_indexes, keymap_size, modifiers>>
          ELSE IF fail = "string"
          THEN \* err: the new state is released again
               /\ xkb_state' = NullState
               /\ refcnt' = xkb_keymap_unref(
                                xkb_state_unref(xkb_keymap_ref(rc2, km),
                                                xkb_state_new(km)), km)
               /\ led_indexes' = lidx
               /\ mod_indexes' = midx
               /\ keymap' = NULL
               /\ keymap_string' = NullString
               /\ log' = <<>>
               /\ UNCHANGED <<keymap_size, modifiers>>
          ELSE LET st == replay_keycodes(xkb_state_new(km), keycodes, 1)
                   mu == keyboard_modifier_update(st, modifiers)
               IN /\ keymap' = km
                  /\ refcnt' = xkb_keymap_ref(rc2, km)
                  /\ xkb_state' = st
                  /\ led_indexes' = lidx
                  /\ mod_indexes' = midx
                  /\ keymap_string' = xkb_keymap_get_as_string(km)
                  /\ keymap_size' = Len(xkb_keymap_get_as_string(km).bytes) + 1
                  /\ modifiers' = mu.modifiers
                  /\ log' = <<KeymapSignal(km, st, mu.modifiers)>>
    /\ UNCHANGED <<keycodes, repeat_info, impl, leds, destroyed, pressed,
                   overflow>>

\* mutant: returns early when either field is equal
wlr_keyboard_set_repeat_info_either(rate, delay) ==
    /\ ~destroyed
    /\ lastOp' = [name |-> "set_repeat_info", rate |-> rate, delay |-> delay]
    /\ IF repeat_info.rate = rate \/ repeat_info.delay = delay
       THEN /\ log' = <<>>
            /\ UNCHANGED repeat_info
       ELSE /\ repeat_info' = [rate |-> rate, delay |-> delay]
            /\ log' = <<RepeatInfoSignal(repeat_info')>>
    /\ UNCHANGED <<keycodes, keymap, xkb_state, led_indexes, mod_indexes,
                   keymap_string, keymap_size, modifiers, impl, refcnt, leds,
                   destroyed, pressed, overflow>>

wlr_keyboard_set_repeat_info(rate, delay) ==
    /\ ~destroyed
    /\ lastOp' = [name |-> "set_repeat_info", rate |-> rate, delay |-> delay]
    /\ IF repeat_info.rate = rate /\ repeat_info.delay = delay
       THEN /\ log' = <<>>
            /\ UNCHANGED repeat_info
       ELSE /\ repeat_info' = [rate |-> rate, delay |-> delay]
            /\ log' = <<RepeatInfoSignal(repeat_info')>>
    /\ UNCHANGED <<keycodes, keymap, xkb_state, led_indexes, mod_indexes,
                   keymap_string, keymap_size, modifiers, impl, refcnt, leds,
                   destroyed, pressed, overflow>>

\* a caller reads the effective modifiers
get_modifiers ==
    /\ ~destroyed
    /\ lastOp' = [name |-> "get_modifiers",
                  ret |-> wlr_keyboard_get_modifiers(modifiers, mod_indexes)]
    /\ log' = <<>>
    /\ UNCHANGED <<kbFields, impl, refcnt, leds, destroyed, pressed, overflow>>

\* what a subscriber of `destroy` can read of the keyboard in its callback
Snapshot(km, st, str, mods, midx) ==
    [keymap |-> km, xkb_state |-> st, keymap_string |-> str,
     get_modifiers |-> wlr_keyboard_get_modifiers(mods, midx)]

DestroySignal(snap) == [sig |-> "destroy", kb |-> snap]
ReleaseCall(what) == [sig |-> what]

\* mutant: the destroy signal is emitted after the releases
wlr_keyboard_destroy_late ==
    /\ ~destroyed
    /\ destroyed' = TRUE
    /\ lastOp' = [name |-> "destroy"]
    /\ log' = <<ReleaseCall("xkb_state_unref"),
                ReleaseCall("xkb_keymap_unref"),
                ReleaseCall("free_keymap_string"),
                DestroySignal(Snapshot(NULL, NullState, NullString,
                                       modifiers, mod_indexes)),
                IF impl.destroy THEN ReleaseCall("impl_destroy")
                                ELSE ReleaseCall("free_kb")>>
    /\ refcnt' = xkb_keymap_unref(xkb_state_unref(refcnt, xkb_state), keymap)
    /\ UNCHANGED <<kbFields, impl, leds, pressed, overflow>>

\* mutant: the keymap is not released
wlr_keyboard_destroy_leak ==
    /\ ~destroyed
    /\ destroyed' = TRUE
    /\ lastOp' = [name |-> "destroy"]
    /\ log' = <<DestroySignal(Snapshot(keymap, xkb_state, keymap_string,
                                       modifiers, mod_indexes)),
                ReleaseCall("xkb_state_unref"),
                ReleaseCall("free_keymap_string"),
                IF impl.destroy THEN ReleaseCall("impl_destroy")
                                ELSE ReleaseCall("free_kb")>>
    /\ refcnt' = xkb_state_unref(refcnt, xkb_state)
    /\ UNCHANGED <<kbFields, impl, leds, pressed, overflow>>

wlr_keyboard_destroy ==
    /\ ~destroyed
    /\ destroyed' = TRUE
    /\ lastOp' = [name |-> "destroy"]
    /\ log' = <<DestroySignal(Snapshot(keymap, xkb_state, keymap_string,
                                       modifiers, mod_indexes)),
                ReleaseCall("xkb_state_unref"),
                ReleaseCall("xkb_keymap_unref"),
                ReleaseCall("free_keymap_string"),
                IF impl.destroy THEN ReleaseCall("impl_destroy")
                                ELSE ReleaseCall("free_kb")>>
    /\ refcnt' = xkb_keymap_unref(xkb_state_unref(refcnt, xkb_state), keymap)
    /\ UNCHANGED <<kbFields, impl, leds, pressed, overflow>>

\* ------------------------------------------------------- the inputs
\* the four values an upstream source injects
ModifierInputs == {<<{}, {}, {}, 0>>,
                   <<{Shift}, {}, {}, 0>>,
                   <<{}, {Shift}, {Lock}, 1>>}
FailInputs == {"none", "state", "string"}
RateInputs == {25, 30, 0, -1, 2147483647}
DelayInputs == {600, 0, -5, 2147483647}

EventsOf(codes) == [keycode : codes, state : KeyStates, update_state : BOOLEAN]

\* the filter of the key is below the bound on reference counts
WithinRefcnt(event) ==
    (xkb_state.km # NULL /\ event.update_state /\ event.state = WLR_KEY_PRESSED)
        => xkb_state.filters[event.keycode].refcnt < MaxRefcnt

NotifyKey(codes) == \E event \in EventsOf(codes) :
    WithinRefcnt(event) /\ wlr_keyboard_notify_key(event)

NotifyModifiers == \E m \in ModifierInputs :
    wlr_keyboard_notify_modifiers(m[1], m[2], m[3], m[4])

SetKeymap(fails) == \E km \in Keymaps, fail \in fails :
    wlr_keyboard_set_keymap(km, fail)

SetRepeatInfo(rates, delays) == \E rate \in rates, delay \in delays :
    wlr_keyboard_set_repeat_info(rate, delay)

GetModifiers == get_modifiers

Destroy == wlr_keyboard_destroy

\* The whole keyboard: every operation, on the keycodes that fit the KeySet.
Next ==
    \/ NotifyKey(MainKeycodes)
    \/ NotifyModifiers
    \/ SetKeymap(FailInputs)
    \/ SetRepeatInfo({25, 30}, {600})
    \/ GetModifiers
    \/ Destroy

Spec == Init /\ [][Next]_vars

\* Key events on more keycodes than the KeySet holds, keymap loaded or not.
NextKeys ==
    \/ NotifyKey(Keycodes)
    \/ SetKeymap({"none"})

SpecKeys == Init /\ [][NextKeys]_vars

\* The repeat configuration over signed rates and delays.
NextRepeat ==
    \/ SetRepeatInfo(RateInputs, DelayInputs)
    \/ Destroy

SpecRepeat == Init /\ [][NextRepeat]_vars

\* get_modifiers over stored ModifierStates and modifier index tables.
\* A table gives modifier i the index i + o, or no index to the modifiers
\* of one of the sets below; a mask is empty, one bit or every bit.
AbsentSets == {{}, 0 .. (WLR_MODIFIER_COUNT - 1)}
                  \cup {{h} : h \in 0 .. (WLR_MODIFIER_COUNT - 1)}
ModIndexTables ==
    {[i \in 0 .. (WLR_MODIFIER_COUNT - 1) |->
         IF i \in absent THEN XKB_MOD_INVALID ELSE i + o] :
        absent \in AbsentSets, o \in 0 .. MaxModShift}
ModBits == 0 .. (WLR_MODIFIER_COUNT - 1 + MaxModShift)
MaskSamples == {{}, ModBits} \cup {{b} : b \in ModBits}

InitModifiers ==
    /\ keycodes = <<>>
    /\ keymap = NULL
    /\ xkb_state = NullState
    /\ led_indexes = [i \in 0 .. (WLR_LED_COUNT - 1) |-> 0]
    /\ mod_indexes \in ModIndexTables
    /\ keymap_string = NullString
    /\ keymap_size = 0
    /\ modifiers \in [depressed : MaskSamples, latched : MaskSamples,
                       locked : MaskSamples, group : {0}]
    /\ repeat_info = [rate |-> 25, delay |-> 600]
    /\ impl \in Backends
    /\ refcnt = [km \in Keymaps |-> 1]
    /\ leds = {}
    /\ destroyed = FALSE
    /\ log = <<>>
    /\ lastOp = [name |-> "init"]
    /\ pressed = {}
    /\ overflow = FALSE

NextModifiers == GetModifiers

SpecModifiers == InitModifiers /\ [][NextModifiers]_vars

\* ================================================================ claims

\* the key event of the operation that ran last
LastEvent == log[1].event
RanNotifyKey == lastOp.name = "notify_key"

\* C1: in every state reached by key events, keymap loaded or not, the
\* KeySet holds no keycode twice and at most WLR_KEYBOARD_KEYS_CAP keycodes
\* (the assertion at the end of keyboard_key_update holds).
C1_KeySetBounded ==
    /\ Len(keycodes) <= WLR_KEYBOARD_KEYS_CAP
    /\ \A i, j \in 1 .. Len(keycodes) : keycodes[i] = keycodes[j] => i = j

\* a press of a new keycode was dropped at a full KeySet, keymap loaded
C1_Witness ==
    /\ RanNotifyKey
    /\ lastOp.loaded
    /\ LastEvent.state = WLR_KEY_PRESSED
    /\ ~lastOp.held
    /\ LastEvent.keycode \notin Range(keycodes)
    /\ Len(keycodes) = WLR_KEYBOARD_KEYS_CAP

\* C2 as stated: the size of the KeySet equals the number of distinct
\* keycodes whose latest event was a press.
C2_SizeIsPressedCount == Len(keycodes) = Cardinality(pressed)

\* C2 amended: the KeySet holds only keycodes that are pressed, never more
\* than the capacity, and exactly the pressed keycodes as long as no press
\* of a new keycode found the KeySet full.
C2_SizeIsPressedCountUnlessDropped ==
    /\ Range(keycodes) \subseteq pressed
    /\ Len(keycodes) <= Cardinality(pressed)
    /\ Len(keycodes) <= WLR_KEYBOARD_KEYS_CAP
    /\ ~overflow => /\ Range(keycodes) = pressed
                    /\ Len(keycodes) = Cardinality(pressed)

\* the KeySet was filled and a key released again, nothing dropped
C2_Witness ==
    /\ RanNotifyKey
    /\ LastEvent.state = WLR_KEY_RELEASED
    /\ lastOp.held
    /\ ~overflow
    /\ Len(keycodes) = WLR_KEYBOARD_KEYS_CAP - 1

\* C3: a press of a keycode that is in the KeySet, and a release of one
\* that is not, leave the KeySet (contents, order and size) as it was.
C3_Idempotent ==
    [][(lastOp'.name = "notify_key" /\
        LET e == log'[1].event
        IN \/ e.state = WLR_KEY_PRESSED /\ e.keycode \in Range(keycodes)
           \/ e.state = WLR_KEY_RELEASED /\ e.keycode \notin Range(keycodes))
       => keycodes' = keycodes]_vars

\* a held keycode was pressed again while another one is held too
C3_Witness ==
    /\ RanNotifyKey
    /\ LastEvent.state = WLR_KEY_PRESSED
    /\ lastOp.held
    /\ Len(keycodes) = WLR_KEYBOARD_KEYS_CAP
    /\ LastEvent.keycode = keycodes[1]

\* the four values the translation state serializes to
Serialized(st) ==
    [depressed |-> xkb_state_serialize_mods(st, "depressed"),
     latched |-> xkb_state_serialize_mods(st, "latched"),
     locked |-> xkb_state_serialize_mods(st, "locked"),
     group |-> xkb_state_serialize_layout(st)]

\* the operation of this step emitted a modifiers signal; the values the
\* translation state serializes to after it differ from the stored ones
FiresModifiers == Emitted(log', "modifiers") # {}
ModifiersDiffer == xkb_state'.km # NULL /\ Serialized(xkb_state') # modifiers

\* C4 as stated: in every operation a modifiers signal is emitted iff the
\* serialized values differ from the stored ModifierState.
C4_FiresIffDiffers ==
    [][~destroyed' => (FiresModifiers <=> ModifiersDiffer)]_vars

\* C4 amended: in every operation but set_keymap one modifiers signal is
\* emitted, carrying the new values, iff the serialized values differ from
\* the stored ones, and the stored ones stay when they are equal; set_keymap
\* emits none whatever the values are; a notify_modifiers that repeats the
\* arguments of the one right before it emits none.
C4_FiresIffDiffersButSetKeymap ==
    [][/\ lastOp'.name \notin {"set_keymap", "destroy"} =>
            /\ FiresModifiers <=> ModifiersDiffer
            /\ FiresModifiers =>
                    /\ Cardinality(Emitted(log', "modifiers")) = 1
                    /\ \A i \in Emitted(log', "modifiers") :
                            log'[i].modifiers = Serialized(xkb_state')
                    /\ modifiers' = Serialized(xkb_state')
            /\ ~FiresModifiers => modifiers' = modifiers
       /\ lastOp'.name = "set_keymap" => ~FiresModifiers
       /\ (/\ lastOp.name = "notify_modifiers"
           /\ lastOp'.name = "notify_modifiers"
           /\ lastOp'.args = lastOp.args) => ~FiresModifiers]_vars

\* a notify_modifiers with non-zero values emitted no modifiers signal
C4_Witness ==
    /\ lastOp.name = "notify_modifiers"
    /\ lastOp.loaded
    /\ lastOp.args[2] # {}
    /\ modifiers.latched # {}
    /\ Emitted(log, "modifiers") = {}

\* the modifiers the held keycodes contribute in keymap km
HeldMods(km, kc) == UNION {KeyAction(km, k + XkbOffset).mods : k \in Range(kc)}

\* C5: a successful set_keymap emits the keymap signal, once and nothing
\* else, when the held keys are replayed into the new translation state
\* and the ModifierState is recomputed from it, whether or not the
\* recomputation changed the ModifierState.
C5_KeymapSignalAlways ==
    [][(lastOp'.name = "set_keymap" /\ lastOp'.ok) =>
        /\ Len(log') = 1
        /\ log'[1].sig = "keymap"
        /\ log'[1].keymap = lastOp'.keymap
        /\ log'[1].xkb_state.km = lastOp'.keymap
        /\ HeldMods(lastOp'.keymap, keycodes) \subseteq log'[1].xkb_state.base
        /\ log'[1].modifiers = Serialized(log'[1].xkb_state)
        /\ log'[1].xkb_state = xkb_state'
        /\ log'[1].modifiers = modifiers']_vars

\* a keymap was set with a modifier key held and the recomputed
\* ModifierState equal to the stored one
C5_Witness ==
    /\ lastOp.name = "set_keymap"
    /\ lastOp.ok
    /\ ~lastOp.updated
    /\ keycodes # <<>>
    /\ modifiers.depressed # {}
    /\ Len(log) = 1

\* the standard modifiers (positions in mod_names) an xkb modifier index
\* stands for in keymap km
StandardOf(km, m) ==
    {i \in 0 .. (WLR_MODIFIER_COUNT - 1) :
        xkb_map_mod_get_index(km, mod_names[i + 1]) = m}

\* C6: after a successful set_keymap every modifier that a held keycode
\* contributes in the new keymap is in the stored depressed mask and is
\* reported by get_modifiers.
C6_ReplayKeepsModifiers ==
    (lastOp.name = "set_keymap" /\ lastOp.ok) =>
        \A k \in Range(keycodes) :
            \A m \in KeyAction(keymap, k + XkbOffset).mods :
                /\ m \in modifiers.depressed
                /\ StandardOf(keymap, m) # {}
                /\ StandardOf(keymap, m) \subseteq
                       wlr_keyboard_get_modifiers(modifiers, mod_indexes)

\* two keys held, the second one in the KeySet contributes Shift in the
\* new keymap, the other nothing
C6_Witness ==
    /\ lastOp.name = "set_keymap"
    /\ lastOp.ok
    /\ Len(keycodes) = 2
    /\ KeyAction(keymap, keycodes[1] + XkbOffset).mods = {}
    /\ KeyAction(keymap, keycodes[2] + XkbOffset).mods = {Shift}
    /\ ModPosition("Shift") \in wlr_keyboard_get_modifiers(modifiers, mod_indexes)

\* C7: RepeatInfo starts at rate 25, delay 600; set_repeat_info stores both
\* values and emits the repeat_info signal once when the pair differs from
\* the stored one in a field, and changes and emits nothing when it is
\* equal, for any signed rate and delay.
C7_RepeatInfoGated ==
    /\ repeat_info = [rate |-> 25, delay |-> 600]
    /\ [][lastOp'.name = "set_repeat_info" =>
            LET given == [rate |-> lastOp'.rate, delay |-> lastOp'.delay]
            IN IF given # repeat_info
               THEN /\ repeat_info' = given
                    /\ log' = <<RepeatInfoSignal(given)>>
               ELSE /\ repeat_info' = repeat_info
                    /\ log' = <<>>]_vars

\* set_repeat_info(30, 600) ran on the stored pair (30, 600), which an
\* earlier call had stored, and emitted nothing
C7_Witness ==
    /\ lastOp.name = "set_repeat_info"
    /\ lastOp.rate = 30
    /\ lastOp.delay = 600
    /\ repeat_info = [rate |-> 30, delay |-> 600]
    /\ log = <<>>

\* C8: a notify_key or notify_modifiers that runs with a keymap loaded hands
\* the indicator mask to wlr_keyboard_led_update exactly once, as its last
\* step and after a modifiers signal if it emits one; a backend with the
\* hook then holds that mask, also when it held the same mask before.
C8_LedPushAlways ==
    [][(lastOp'.name \in {"notify_key", "notify_modifiers"} /\ lastOp'.loaded) =>
        LET n == Len(log')
        IN /\ n >= 1
           /\ Emitted(log', "led_update") = {n}
           /\ \A i \in Emitted(log', "modifiers") : i < n
           /\ impl.led_update => leds' = log'[n].leds]_vars

\* a key event changed no modifier and pushed the mask, with an indicator
\* lit, that the backend held already
C8_Witness ==
    /\ lastOp.name = "notify_key"
    /\ lastOp.loaded
    /\ impl.led_update
    /\ Emitted(log, "modifiers") = {}
    /\ Emitted(log, "led_update") = {Len(log)}
    /\ leds # {}
    /\ lastOp.leds_before = leds

\* C9: destroy emits the destroy signal first, with the keymap, the
\* translation state, the serialized keymap and get_modifiers as they were
\* before the call, then releases the three, and runs the backend's
\* teardown (or the default release) last.
C9_DestroySignalFirst ==
    [][lastOp'.name = "destroy" =>
        /\ Len(log') = 5
        /\ log'[1] = DestroySignal(
               [keymap |-> keymap, xkb_state |-> xkb_state,
                keymap_string |-> keymap_string,
                get_modifiers |->
                    wlr_keyboard_get_modifiers(modifiers, mod_indexes)])
        /\ {log'[i].sig : i \in 2 .. 4} =
               {"xkb_state_unref", "xkb_keymap_unref", "free_keymap_string"}
        /\ log'[5].sig = (IF impl.destroy THEN "impl_destroy" ELSE "free_kb")]_vars

\* a keyboard with a keymap and an active modifier was destroyed
C9_Witness ==
    /\ lastOp.name = "destroy"
    /\ destroyed
    /\ log[1].sig = "destroy"
    /\ log[1].kb.keymap # NULL
    /\ log[1].kb.get_modifiers # {}

\* the state a press of k with update_state leaves when it ran with a
\* keymap loaded and no key held
PressedAlone(k) ==
    /\ lastOp.name = "notify_key"
    /\ lastOp.loaded
    /\ ~lastOp.held
    /\ keycodes = <<k>>
    /\ log[1] = KeySignal([keycode |-> k, state |-> WLR_KEY_PRESSED,
                           update_state |-> TRUE], <<k>>)
    /\ Shift \in KeyAction(keymap, k + XkbOffset).mods

\* the press of k of this step, the release of k of this step
PressNow(k) ==
    /\ lastOp'.name = "notify_key"
    /\ log'[1].event = [keycode |-> k, state |-> WLR_KEY_PRESSED,
                         update_state |-> TRUE]
ReleaseNow(k) ==
    /\ lastOp'.name = "notify_key"
    /\ log'[1].event = [keycode |-> k, state |-> WLR_KEY_RELEASED,
                         update_state |-> TRUE]

ShiftReported == ModPosition("Shift") \in
                     wlr_keyboard_get_modifiers(modifiers, mod_indexes)

\* the press emitted key, then modifiers with Shift depressed, and
\* get_modifiers has the Shift bit
ShiftSet ==
    /\ Len(log') >= 2
    /\ log'[2].sig = "modifiers"
    /\ Shift \in log'[2].modifiers.depressed
    /\ ShiftReported'

ShiftCleared == Shift \notin modifiers'.depressed /\ ~ShiftReported'

HeldRefs(k) ==
    (IF keymap = k THEN 1 ELSE 0) + (IF xkb_state.km = k THEN 1 ELSE 0)

\* C11: a set_keymap that fails, at the construction of the translation
\* state or at the serialization, leaves no keymap, no translation state
\* and no serialized keymap, whatever was loaded before; the reference
\* taken on the new keymap is released (each count is the one before the
\* call less the references on what was loaded); it emits no keymap and
\* no modifiers signal; the KeySet and RepeatInfo are unchanged.
C11_FailedSetKeymapRollsBack ==
    [][(lastOp'.name = "set_keymap" /\ ~lastOp'.ok) =>
        /\ keymap' = NULL
        /\ xkb_state' = NullState
        /\ keymap_string' = NullString
        /\ refcnt' = [k \in Keymaps |-> refcnt[k] - HeldRefs(k)]
        /\ Emitted(log', "keymap") = {}
        /\ Emitted(log', "modifiers") = {}
        /\ keycodes' = keycodes
        /\ repeat_info' = repeat_info]_vars

\* keymap B was rejected at the serialization while keys were held, a
\* modifier was depressed and an earlier keymap had been serialized
C11_Witness ==
    /\ lastOp.name = "set_keymap"
    /\ ~lastOp.ok
    /\ lastOp.keymap = "B"
    /\ led_indexes[2] = XKB_LED_INVALID
    /\ keycodes # <<>>
    /\ modifiers.depressed # {}
    /\ keymap_size # 0
    /\ keymap = NULL
    /\ refcnt["B"] = 1

\* C12: every notify_key emits the key signal exactly once, first of all it
\* emits and calls (before a modifiers signal and before the indicator
\* push), with the KeySet already updated for the event, keymap loaded or
\* not; without a keymap it does nothing else: the ModifierState, the
\* translation state and the backend's indicators stay; notify_modifiers
\* without a keymap changes nothing, emits nothing and pushes nothing.
C12_KeySignalFirst ==
    [][/\ lastOp'.name = "notify_key" =>
            /\ Emitted(log', "key") = {1}
            /\ log'[1].keycodes = keycodes'
            /\ keycodes' = keyboard_key_update(keycodes, log'[1].event)
            /\ ~lastOp'.loaded =>
                    /\ Len(log') = 1
                    /\ modifiers' = modifiers
                    /\ xkb_state' = xkb_state
                    /\ leds' = leds
       /\ (lastOp'.name = "notify_modifiers" /\ ~lastOp'.loaded) =>
            /\ log' = <<>>
            /\ UNCHANGED <<kbFields, impl, refcnt, leds, destroyed>>]_vars

\* a key event with a keymap loaded emitted key, then modifiers, then pushed
\* the indicators, and the key signal saw the keycode in the KeySet
C12_Witness ==
    /\ RanNotifyKey
    /\ lastOp.loaded
    /\ Len(log) = 3
    /\ log[1].sig = "key"
    /\ log[2].sig = "modifiers"
    /\ log[3].sig = "led_update"
    /\ LastEvent.state = WLR_KEY_PRESSED
    /\ LastEvent.keycode \in Range(log[1].keycodes)

\* C13: get_modifiers returns, for every stored ModifierState and every
\* modifier index table, the mask whose bit i (0 .. 7, in the order of
\* mod_names) is set exactly when modifier i has an index and the bit of
\* that index is set in depressed or in latched; the locked mask does not
\* contribute, a modifier without an index is not reported, and the call
\* changes no state.
C13_GetModifiers ==
    [][lastOp'.name = "get_modifiers" =>
        /\ \A i \in 0 .. (WLR_MODIFIER_COUNT - 1) :
               i \in lastOp'.ret <=>
                   /\ mod_indexes[i] # XKB_MOD_INVALID
                   /\ \/ mod_indexes[i] \in modifiers.depressed
                      \/ mod_indexes[i] \in modifiers.latched
        /\ lastOp'.ret \subseteq 0 .. (WLR_MODIFIER_COUNT - 1)
        /\ UNCHANGED <<kbFields, impl, refcnt, leds, destroyed>>]_vars

\* Shift has index 1 and is latched, Lock has index 2 and is locked only,
\* Mod5 has no index: get_modifiers returned the Shift bit alone
C13_Witness ==
    /\ lastOp.name = "get_modifiers"
    /\ mod_indexes[ModPosition("Shift")] = 1
    /\ mod_indexes[ModPosition("Lock")] = 2
    /\ mod_indexes[ModPosition("Mod5")] = XKB_MOD_INVALID
    /\ modifiers.depressed = {}
    /\ modifiers.latched = {1}
    /\ modifiers.locked = {2}
    /\ lastOp.ret = {ModPosition("Shift")}

\* the indicators of the index table lidx that have an index and that the
\* translation state st reports active
ActiveIndicators(st, lidx) ==
    {i \in 0 .. (WLR_LED_COUNT - 1) :
        lidx[i] # XKB_LED_INVALID /\ xkb_state_led_index_is_active(st, lidx[i]) = 1}

\* C14: the indicator mask a notify_key or notify_modifiers pushes has bit i
\* (0 Num Lock, 1 Caps Lock, 2 Scroll Lock) set exactly when indicator i has
\* an index in the keymap and the translation state reports it active; an
\* indicator without an index is pushed as inactive.
C14_PushedMaskIsActiveIndicators ==
    (lastOp.name \in {"notify_key", "notify_modifiers"} /\ lastOp.loaded) =>
        log[Len(log)] = LedUpdateCall(ActiveIndicators(xkb_state, led_indexes))

\* the index tables of this step are the lookups of keymap km
TablesOf(km) ==
    /\ led_indexes = [i \in 0 .. (WLR_LED_COUNT - 1) |->
                          xkb_map_led_get_index(km, led_names[i + 1])]
    /\ mod_indexes = [i \in 0 .. (WLR_MODIFIER_COUNT - 1) |->
                          xkb_map_mod_get_index(km, mod_names[i + 1])]

\* the index tables hold no lookup: every entry marked absent, or every
\* entry as the zeroed struct had it before the first keymap
TablesAbsent ==
    \/ /\ \A i \in 0 .. (WLR_LED_COUNT - 1) : led_indexes[i] = XKB_LED_INVALID
       /\ \A i \in 0 .. (WLR_MODIFIER_COUNT - 1) : mod_indexes[i] = XKB_MOD_INVALID
    \/ /\ \A i \in 0 .. (WLR_LED_COUNT - 1) : led_indexes[i] = 0
       /\ \A i \in 0 .. (WLR_MODIFIER_COUNT - 1) : mod_indexes[i] = 0

\* C15: after every completed operation the keymap, the translation state,
\* the serialized keymap and the index tables are all present or all
\* absent, and the tables, when a keymap is held, are the lookups of that
\* keymap for the 8 modifiers and the 3 indicators, never those of a
\* keymap held before or rejected.
C15_AllPresentOrAllAbsent ==
    ~destroyed =>
        IF keymap = NULL
        THEN xkb_state = NullState /\ keymap_string.null /\ TablesAbsent
        ELSE /\ xkb_state.km = keymap
             /\ keymap_string = xkb_keymap_get_as_string(keymap)
             /\ TablesOf(keymap)

\* C16: with no keymap loaded, before the first set_keymap and after a
\* failed one that followed key events and modifier injections,
\* get_modifiers returns 0.
C16_NoKeymapNoModifiers ==
    (lastOp.name = "get_modifiers" /\ keymap = NULL) => lastOp.ret = {}

\* C17: whenever a keymap is loaded and no operation is in progress, the
\* indicator mask the backend received last (none lit before the first
\* push) is the mask of the indicators the current translation state
\* reports active, also after a successful set_keymap that replaced a
\* translation state with an indicator lit.
C17_IndicatorsFollowState ==
    (keymap # NULL /\ ~destroyed /\ impl.led_update) =>
        leds = ActiveIndicators(xkb_state, led_indexes)

\* C18: with a keymap loaded, a notify_key with update_state = FALSE updates
\* the KeySet and emits the key signal, leaves the translation state as it
\* was, emits no modifiers signal, leaves the stored ModifierState, and
\* pushes the indicator mask; with update_state = TRUE the translation
\* state is advanced by one key-down (press) or key-up (release) of the
\* keycode, also when the KeySet did not change.
C18_UpdateStateFlag ==
    [][(lastOp'.name = "notify_key" /\ lastOp'.loaded) =>
        LET e == log'[1].event
        IN /\ keycodes' = keyboard_key_update(keycodes, e)
           /\ log'[1] = KeySignal(e, keycodes')
           /\ Emitted(log', "led_update") = {Len(log')}
           /\ IF e.update_state
              THEN xkb_state' = xkb_state_update_key(xkb_state,
                                    e.keycode + XkbOffset,
                                    IF e.state = WLR_KEY_PRESSED
                                    THEN XKB_KEY_DOWN ELSE XKB_KEY_UP)
              ELSE /\ xkb_state' = xkb_state
                   /\ Emitted(log', "modifiers") = {}
                   /\ modifiers' = modifiers]_vars

\* a Shift key was pressed with update_state = FALSE: it is in the KeySet,
\* Shift is not depressed; a key pressed twice with update_state = TRUE is
\* in the KeySet once and down twice in the translation state
C18_Witness ==
    /\ RanNotifyKey
    /\ lastOp.loaded
    /\ ~LastEvent.update_state
    /\ LastEvent.state = WLR_KEY_PRESSED
    /\ ~lastOp.held
    /\ LastEvent.keycode \in Range(keycodes)
    /\ Shift \in KeyAction(keymap, LastEvent.keycode + XkbOffset).mods
    /\ xkb_state.filters[LastEvent.keycode].refcnt = 0
    /\ Shift \notin modifiers.depressed
    /\ Len(log) = 2
    /\ \E j \in Range(keycodes) : xkb_state.filters[j].refcnt = 2

\* C19: whenever a keymap is loaded and no operation is in progress, the
\* stored ModifierState (depressed, latched, locked, group) is what the
\* current translation state serializes to: after every successful
\* set_keymap, every notify_key and every notify_modifiers, in any order.
C19_SnapshotConsistent ==
    (xkb_state.km # NULL /\ ~destroyed) => modifiers = Serialized(xkb_state)

\* a key event that did not advance the translation state followed an
\* injection into keymap B: two masks and the layout are non-zero
C19_Witness ==
    /\ RanNotifyKey
    /\ lastOp.loaded
    /\ ~LastEvent.update_state
    /\ keymap = "B"
    /\ modifiers.latched # {}
    /\ modifiers.locked # {}
    /\ modifiers.group = 1
    /\ modifiers = Serialized(xkb_state)

\* the references on each keymap that its other owners hold (every owner
\* keeps the one it had when the keyboard was created)
OwnerRefs == [k \in Keymaps |-> 1]

\* C20: after any sequence of set_keymap calls, successful or failed, and
\* of the other operations, the count of every keymap is the references of
\* its other owners, plus one of the core and one of the translation state
\* for the keymap that is loaded and none for any other; a replaced and a
\* rejected keymap are back at the references of their owners, no count
\* is ever below them, and after destroy the core holds none.
C20_KeymapReferenceBalance ==
    /\ ~destroyed => xkb_state.km = keymap
    /\ \A k \in Keymaps :
           /\ refcnt[k] >= OwnerRefs[k]
           /\ refcnt[k] = OwnerRefs[k] + (IF destroyed THEN 0 ELSE HeldRefs(k))

\* a keyboard that held keymap B, with a key pressed, was destroyed: the
\* counts of both keymaps are back at their owners'
C20_Witness ==
    /\ destroyed
    /\ keymap = "B"
    /\ xkb_state.km = "B"
    /\ pressed # {}
    /\ refcnt = OwnerRefs

====
